---- MODULE Spec2Model ----
(***************************************************************************)
(* Model of hepcrawl's OAI-PMH harvesting spider (incremental-harvest      *)
(* bookkeeping in spiders/common/oaipmh_spider.py) and of the Hindawi      *)
(* record normaliser (spiders/hindawi_spider.py).                          *)
(*                                                                         *)
(* Four specifications share the module:                                   *)
(*   Spec       harvest invocations of OAIPMHSpider driven by the crawling *)
(*              framework's scheduler                                      *)
(*   SpecAlias  the alias / last-run path computation                      *)
(*   SpecRecord HindawiSpider.parse_node on one record node                *)
(*   SpecUrls   HindawiSpider.get_urls_in_record / differentiate_urls      *)
(***************************************************************************)
EXTENDS Integers, Sequences, FiniteSets, TLC

VARIABLES
    \* ---- harvest (OAIPMHSpider) ----
    now,            \* the wall clock read by datetime.utcnow()
    file,           \* the last-run file of this spider name + alias
    from_date,      \* self.from_date
    until_date,     \* self.until_date
    sr_pc,          \* position of the start_requests generator
    started_at,     \* local started_at of start_requests
    parse_pc,       \* position of the request / parse generator
    fetch,          \* outcome and arguments of sickle.ListRecords
    remaining,      \* records the endpoint has still to deliver
    emitted,        \* records yielded by parse so far
    hist,           \* history of the invocation (observations only)
    \* ---- alias (OAIPMHSpider._make_alias) ----
    pairA, pairB,   \* two (metadata_prefix, set) configurations
    pathA, pathB,   \* their last-run file paths
    alias_pc,
    \* ---- record normaliser (HindawiSpider) ----
    node,           \* the texts the xpath queries extract from the record
    item,           \* the outcome of parse_node
    links,          \* the outcome of the URL classification
    rec_pc

hvars == <<now, file, from_date, until_date, sr_pc, started_at, parse_pc,
           fetch, remaining, emitted, hist>>
avars == <<pairA, pairB, pathA, pathB, alias_pc>>
rvars == <<node, item, links, rec_pc>>
vars == <<hvars, avars, rvars>>

(***************************************************************************)
(* Bounds                                                                  *)
(***************************************************************************)
MaxTime == 3        \* the clock stops after this many ticks
TicksPerDay == 2    \* clock ticks in one day
MaxRecords == 1     \* records one ListRecords call can deliver

(***************************************************************************)
(* Values.  A Python value that holds a date is modelled by a record with  *)
(* a kind: None, the empty string, a 'YYYY-MM-DD' string or an ISO-8601    *)
(* 'YYYY-MM-DDTHH:MM:SS' string.  A datetime object is a day and a time of *)
(* day.                                                                    *)
(***************************************************************************)
NoneVal == [kind |-> "none", day |-> 0, tod |-> 0]
EmptyStr == [kind |-> "empty", day |-> 0, tod |-> 0]
DateStr(d) == [kind |-> "date", day |-> d, tod |-> 0]
DateTimeStr(d, t) == [kind |-> "datetime", day |-> d, tod |-> t]
DateTime(d, t) == [day |-> d, tod |-> t]

\* Python truthiness of a value used with `or`
Truthy(v) == v.kind \notin {"none", "empty"}

\* datetime.utcnow()
utcnow == DateTime(now \div TicksPerDay, now % TicksPerDay)

\* datetime.isoformat()
isoformat(dt) == DateTimeStr(dt.day, dt.tod)

\* dateutil.parser.parse(): a date-only string parses to midnight
dateparser_parse(s) == DateTime(s.day, s.tod)

\* datetime.strftime('%Y-%m-%d')
strftime_ymd(dt) == DateStr(dt.day)

\* the values the from_date and until_date arguments are drawn from: absent,
\* empty, a date, a date with a time
FromArgs == {NoneVal, EmptyStr, DateStr(0), DateTimeStr(1, 1)}
UntilArgs == {NoneVal, EmptyStr, DateStr(1), DateTimeStr(0, 1)}

(***************************************************************************)
(* The last-run file                                                       *)
(***************************************************************************)
NoFile == [kind |-> "absent", from_date |-> NoneVal, until_date |-> NoneVal,
           last_run_started_at |-> NoneVal, last_run_finished_at |-> NoneVal]
BadFile == [kind |-> "unreadable", from_date |-> NoneVal, until_date |-> NoneVal,
            last_run_started_at |-> NoneVal, last_run_finished_at |-> NoneVal]

\* the dictionary _save_run dumps (the fields spider, url, metadata_prefix and
\* set are fixed for one spider + alias and are left out)
last_run_info(sa) ==
    [kind |-> "json", from_date |-> from_date, until_date |-> until_date,
     last_run_started_at |-> isoformat(sa),
     last_run_finished_at |-> isoformat(utcnow)]

\* faulty variant of load_last_run: every IOError is taken for a missing file
load_last_run_any_ioerror ==
    CASE file.kind \in {"absent", "unreadable"} ->
            [exc |-> "NoLastRunToLoad", value |-> NoFile]
      [] OTHER -> [exc |-> "none", value |-> file]

\* _load_last_run: the loaded dictionary, or the exception raised
load_last_run ==
    CASE file.kind = "absent" -> [exc |-> "NoLastRunToLoad", value |-> NoFile]
      [] file.kind = "unreadable" -> [exc |-> "IOError", value |-> NoFile]
      [] OTHER -> [exc |-> "none", value |-> file]

\* faulty variant of resume_at: resumes from the start of the last run
resume_at_started(last_run) ==
    IF Truthy(last_run.until_date) THEN last_run.until_date
    ELSE last_run.last_run_started_at

\* _resume_from, line 182: the string that is parsed
resume_at(last_run) ==
    IF Truthy(last_run.until_date) THEN last_run.until_date
    ELSE last_run.last_run_finished_at

\* _resume_from: the resolved date, None, or the exception that propagates
resume_from ==
    LET l == load_last_run IN
    CASE l.exc = "NoLastRunToLoad" -> [exc |-> "none", value |-> NoneVal]
      [] l.exc = "IOError" -> [exc |-> "IOError", value |-> NoneVal]
      [] OTHER -> [exc |-> "none",
                   value |-> strftime_ymd(dateparser_parse(resume_at(l.value)))]

NoFetch == [outcome |-> "none", from |-> NoneVal, until |-> NoneVal]

\* observations of one invocation: the from_date argument it was constructed
\* with, how its start date was resolved, whether it wrote the file, whether
\* the write failed, and whether the preceding invocation was a successful
\* harvest
NewHist(fd, ok) ==
    [arg_from |-> fd, resolved |-> "no", wrote |-> FALSE,
     saveFailed |-> FALSE, prevOk |-> ok]

(***************************************************************************)
(* Harvest: initial state                                                  *)
(***************************************************************************)
IdleAlias ==
    /\ pairA = <<>> /\ pairB = <<>> /\ pathA = <<>> /\ pathB = <<>>
    /\ alias_pc = "off"

IdleRecord ==
    /\ node = <<>> /\ item = <<>> /\ links = <<>> /\ rec_pc = "off"

IdleOthers ==
    /\ pairA = <<>> /\ pairB = <<>> /\ pathA = <<>> /\ pathB = <<>>
    /\ alias_pc = "off"
    /\ node = <<>> /\ item = <<>> /\ links = <<>> /\ rec_pc = "off"

InitHarvest ==
    /\ now = 0
    /\ file \in {NoFile, BadFile}
    /\ from_date \in FromArgs
    /\ until_date \in UntilArgs
    /\ sr_pc = "init"
    /\ started_at = DateTime(0, 0)
    /\ parse_pc = "idle"
    /\ fetch = NoFetch
    /\ remaining = 0
    /\ emitted = 0
    /\ hist = NewHist(from_date, FALSE)
    /\ IdleOthers

(***************************************************************************)
(* Harvest: the steps of one invocation.  The crawling framework's         *)
(* scheduler drives two generators: start_requests, which it advances with *)
(* next(), and parse, the callback of the one request, whose output it     *)
(* iterates.  Nothing in the spider orders the two after the request has   *)
(* been yielded, so every interleaving is a behaviour.                     *)
(***************************************************************************)

\* faulty variant of resolve_from_date: persisted state wins over the argument
resolve_from_date_persisted_first ==
    IF file.kind = "json" THEN resume_from
    ELSE [exc |-> "none", value |-> from_date]

\* start_requests, line 67: self.from_date or self._resume_from
resolve_from_date ==
    IF Truthy(from_date) THEN [exc |-> "none", value |-> from_date]
    ELSE resume_from

\* how line 67 came to its value (an observation, for the properties)
HowResolved ==
    CASE Truthy(from_date) -> "explicit"
      [] file.kind = "absent" -> "nofile"
      [] file.kind = "unreadable" -> "ioerror"
      [] OTHER -> "file"

\* first next() on start_requests: from line 66 to the yield at line 81
StartRequests ==
    /\ sr_pc = "init"
    /\ LET r == resolve_from_date IN
       IF r.exc = "none"
       THEN /\ from_date' = r.value
            /\ started_at' = utcnow
            /\ sr_pc' = "yielded"
            /\ parse_pc' = "pending"
       ELSE /\ sr_pc' = "raised"
            /\ UNCHANGED <<from_date, started_at, parse_pc>>
    /\ hist' = [hist EXCEPT !.resolved = HowResolved]
    /\ UNCHANGED <<now, file, until_date, fetch, remaining, emitted>>
    /\ UNCHANGED <<avars, rvars>>

\* what _save_run leaves in the file: written, or an error from makedirs /
\* open (file untouched), or an error while dumping (file truncated)
save_run(sa, outcome) ==
    CASE outcome = "ok" -> last_run_info(sa)
      [] outcome = "fail_open" -> file
      [] OTHER -> BadFile

SaveOutcomes == {"ok", "fail_open", "fail_dump"}

\* second next() on start_requests: lines 83-87, then the generator ends
ResumeStartRequests ==
    /\ sr_pc = "yielded"
    /\ \E outcome \in SaveOutcomes :
        /\ file' = save_run(started_at, outcome)
        /\ sr_pc' = IF outcome = "ok" THEN "done" ELSE "raised"
        /\ hist' = [hist EXCEPT !.wrote = (outcome = "ok"),
                                !.saveFailed = (outcome # "ok")]
    /\ UNCHANGED <<now, from_date, until_date, started_at, parse_pc, fetch,
                   remaining, emitted>>
    /\ UNCHANGED <<avars, rvars>>

FetchOutcomes == {"ok", "NoRecordsMatch", "error"}

\* faulty variant of after_list_records: NoRecordsMatch is not caught
after_list_records_uncaught(outcome) ==
    CASE outcome = "ok" -> "iterating"
      [] OTHER -> "failed"

\* parse, lines 101-110: where the generator stands after ListRecords
\* (raise StopIteration() inside a Python 2 generator ends it normally)
after_list_records(outcome) ==
    CASE outcome = "ok" -> "iterating"
      [] outcome = "NoRecordsMatch" -> "finished"
      [] OTHER -> "failed"

\* the scheduler starts iterating parse(response): lines 100-110
ParseListRecords ==
    /\ parse_pc = "pending"
    /\ \E outcome \in FetchOutcomes, n \in 0..MaxRecords :
        /\ (outcome # "ok") => n = 0
        /\ fetch' = [outcome |-> outcome, from |-> from_date, until |-> until_date]
        /\ remaining' = n
        /\ parse_pc' = after_list_records(outcome)
    /\ UNCHANGED <<now, file, from_date, until_date, sr_pc, started_at,
                   emitted, hist>>
    /\ UNCHANGED <<avars, rvars>>

\* parse, lines 111-114: one record is yielded
ParseYieldRecord ==
    /\ parse_pc = "iterating"
    /\ remaining > 0
    /\ remaining' = remaining - 1
    /\ emitted' = emitted + 1
    /\ UNCHANGED <<now, file, from_date, until_date, sr_pc, started_at,
                   parse_pc, fetch, hist>>
    /\ UNCHANGED <<avars, rvars>>

\* parse, line 111: the record iterator is exhausted
ParseExhausted ==
    /\ parse_pc = "iterating"
    /\ remaining = 0
    /\ parse_pc' = "finished"
    /\ UNCHANGED <<now, file, from_date, until_date, sr_pc, started_at,
                   fetch, remaining, emitted, hist>>
    /\ UNCHANGED <<avars, rvars>>

\* parse, line 111: fetching the iterator's next page fails
ParseFetchError ==
    /\ parse_pc = "iterating"
    /\ parse_pc' = "failed"
    /\ fetch' = [fetch EXCEPT !.outcome = "error"]
    /\ UNCHANGED <<now, file, from_date, until_date, sr_pc, started_at,
                   remaining, emitted, hist>>
    /\ UNCHANGED <<avars, rvars>>

\* time passes
Tick ==
    /\ now < MaxTime
    /\ now' = now + 1
    /\ UNCHANGED <<file, from_date, until_date, sr_pc, started_at, parse_pc,
                   fetch, remaining, emitted, hist>>
    /\ UNCHANGED <<avars, rvars>>

\* no step of the current invocation is left
Quiescent ==
    /\ sr_pc \in {"done", "raised"}
    /\ parse_pc \in {"idle", "finished", "failed"}

\* the harvest completed: both generators ran to their end
Done == sr_pc = "done" /\ parse_pc = "finished"

\* __init__, lines 49-64: the next invocation, a new spider object
NewRun ==
    /\ Quiescent
    /\ \E fd \in FromArgs, ud \in UntilArgs :
        /\ from_date' = fd
        /\ until_date' = ud
        /\ hist' = NewHist(fd, Done /\ hist.wrote)
    /\ sr_pc' = "init"
    /\ started_at' = DateTime(0, 0)
    /\ parse_pc' = "idle"
    /\ fetch' = NoFetch
    /\ remaining' = 0
    /\ emitted' = 0
    /\ UNCHANGED <<now, file>>
    /\ UNCHANGED <<avars, rvars>>

NextHarvest ==
    \/ StartRequests
    \/ ResumeStartRequests
    \/ ParseListRecords
    \/ ParseYieldRecord
    \/ ParseExhausted
    \/ ParseFetchError
    \/ Tick
    \/ NewRun

Spec == InitHarvest /\ [][NextHarvest]_vars

(***************************************************************************)
(* Harvest: properties                                                     *)
(***************************************************************************)

\* the last-run file holds the window of the current invocation
FileHasThisRun ==
    /\ file.kind = "json"
    /\ file.from_date = from_date
    /\ file.until_date = until_date
    /\ file.last_run_started_at = DateTimeStr(started_at.day, started_at.tod)

\* C1: when the fetch in parse fails with an error other than 'no records
\* match', the invocation does not write the last-run file.
C1_FailedFetchNotPersisted ==
    parse_pc = "failed" => ~hist.wrote

\* C2: the last-run file is written only after the record sequence produced
\* by parse is exhausted, whatever the order in which the scheduler advances
\* start_requests and the parse callback.
C2_SaveOnlyAfterParseExhausted ==
    hist.wrote => parse_pc = "finished"

\* C3 (as stated): when the endpoint reports NoRecordsMatch, parse emits no
\* record and raises no error, and once the invocation has no step left it
\* is DONE with the last-run file holding this run's window.
C3_NoRecordsIsDone ==
    fetch.outcome = "NoRecordsMatch" =>
        /\ parse_pc = "finished"
        /\ emitted = 0
        /\ Quiescent => (Done /\ hist.wrote /\ FileHasThisRun)

\* C3 (amended): as C3, unless writing the last-run file itself fails with an
\* I/O error; that error propagates out of start_requests.
C3_NoRecordsIsDoneUnlessSaveFails ==
    fetch.outcome = "NoRecordsMatch" =>
        /\ parse_pc = "finished"
        /\ emitted = 0
        /\ (Quiescent /\ ~hist.saveFailed) => (Done /\ hist.wrote /\ FileHasThisRun)
        /\ (Quiescent /\ hist.saveFailed) => sr_pc = "raised"

C3_Witness ==
    /\ fetch.outcome = "NoRecordsMatch"
    /\ Done
    /\ hist.wrote
    /\ FileHasThisRun

\* C4: after a successful harvest the next harvest started without an
\* explicit from_date uses the date on which that harvest started as its
\* from_date.
C4_ResumesFromStartOfLastRun ==
    (sr_pc = "yielded" /\ hist.prevOk /\ hist.resolved = "file") =>
        from_date = DateStr(file.last_run_started_at.day)

C6_LoadFailures ==
    /\ hist.resolved = "nofile" =>
          /\ from_date = NoneVal
          /\ parse_pc # "idle"
          /\ fetch.outcome # "none" => fetch.from = NoneVal
    /\ hist.resolved = "ioerror" =>
          /\ sr_pc = "raised"
          /\ parse_pc = "idle"
          /\ fetch = NoFetch
          /\ ~hist.wrote
          /\ file = BadFile

C6_Witness ==
    /\ hist.resolved = "ioerror"
    /\ ~Truthy(hist.arg_from)
    /\ sr_pc = "raised"
    /\ file = BadFile

\* C7: with an explicit from_date, the from_date used for the fetch and the
\* one written to the last-run file are that value unchanged, whatever the
\* last-run file holds.
C7_ExplicitFromDate ==
    Truthy(hist.arg_from) =>
        /\ from_date = hist.arg_from
        /\ sr_pc # "init" => (hist.resolved = "explicit" /\ parse_pc # "idle")
        /\ fetch.outcome # "none" => fetch.from = hist.arg_from
        /\ hist.wrote => file.from_date = hist.arg_from

C7_Witness ==
    /\ Truthy(hist.arg_from)
    /\ hist.prevOk
    /\ fetch.outcome = "ok"
    /\ hist.wrote
    /\ file.from_date = DateTimeStr(1, 1)

(***************************************************************************)
(* Alias and last-run path.  A character string is a sequence of           *)
(* one-character strings; a Python value that is None or a string carries  *)
(* a kind.                                                                 *)
(***************************************************************************)
MaxChunks == 2      \* chunks a metadata prefix or set name is made of

PyNone == [kind |-> "none", chars |-> <<>>]
PyStr(s) == [kind |-> "str", chars |-> s]

S_metadataPrefix == <<"m", "e", "t", "a", "d", "a", "t", "a", "P", "r", "e", "f", "i", "x", "=">>
S_set == <<"&", "s", "e", "t", "=">>
S_None == <<"N", "o", "n", "e">>
S_oai_dc == <<"o", "a", "i", "_", "d", "c">>

\* str.format of one argument: None is rendered 'None'
format_value(v) == IF v.kind = "none" THEN S_None ELSE v.chars

\* _make_alias: 'metadataPrefix={metadata_prefix}&set={set}'
make_alias(metadata_prefix, set) ==
    S_metadataPrefix \o format_value(metadata_prefix) \o S_set \o format_value(set)

\* hashlib.sha1(...).hexdigest(), taken to be free of collisions
sha1_hexdigest(text) == <<"sha1", text>>

\* _last_run_file_path: LAST_RUNS_PATH / name / <sha1 of the alias>.json
last_run_file_path(metadata_prefix, set) ==
    [dir |-> "LAST_RUNS_PATH", name |-> "OAI-PMH",
     file_name |-> <<sha1_hexdigest(make_alias(metadata_prefix, set)), ".json">>]

\* the pieces the names of the model are made of
Chunks == {S_oai_dc, S_set, S_None}

RECURSIVE Concats(_)
Concats(n) ==
    IF n = 0 THEN {<<>>}
    ELSE LET shorter == Concats(n - 1) IN
         shorter \cup {c \o t : c \in Chunks, t \in shorter}

Names == Concats(MaxChunks) \ {<<>>}

\* metadata_prefix is a string, oai_set a string or None (lines 52-53)
Pairs == [metadata_prefix : {PyStr(t) : t \in Names},
          set : {PyNone} \cup {PyStr(t) : t \in Names}]

InitAlias ==
    /\ pairA \in Pairs
    /\ pairB \in Pairs
    /\ pathA = <<>>
    /\ pathB = <<>>
    /\ alias_pc = "start"
    /\ now = 0 /\ file = NoFile /\ from_date = NoneVal /\ until_date = NoneVal
    /\ sr_pc = "off" /\ started_at = DateTime(0, 0) /\ parse_pc = "off"
    /\ fetch = NoFetch /\ remaining = 0 /\ emitted = 0
    /\ hist = NewHist(NoneVal, FALSE)
    /\ IdleRecord

\* a spider configured with pairA renders its last-run path
PathOfA ==
    /\ alias_pc = "start"
    /\ pathA' = last_run_file_path(pairA.metadata_prefix, pairA.set)
    /\ alias_pc' = "a"
    /\ UNCHANGED <<pairA, pairB, pathB>>
    /\ UNCHANGED <<hvars, rvars>>

\* a spider configured with pairB renders its last-run path
PathOfB ==
    /\ alias_pc = "a"
    /\ pathB' = last_run_file_path(pairB.metadata_prefix, pairB.set)
    /\ alias_pc' = "done"
    /\ UNCHANGED <<pairA, pairB, pathA>>
    /\ UNCHANGED <<hvars, rvars>>

NextAlias == PathOfA \/ PathOfB

SpecAlias == InitAlias /\ [][NextAlias]_vars

\* C8: for one source name, two different (metadata_format, set) pairs never
\* map to the same last-run file path, including pairs whose prefix or set
\* contain '&set=' and a set that is absent against the text 'None'.
C8_DistinctPairsDistinctPaths ==
    (alias_pc = "done" /\ pairA # pairB) => pathA # pathB

(***************************************************************************)
(* Record normaliser (HindawiSpider).  The node is modelled by the texts   *)
(* its xpath queries extract: extract() gives a list of strings,           *)
(* extract_first() its first element or None.                              *)
(***************************************************************************)
MaxUrls == 2        \* 856 $u links of one record

UpperCase == <<"A", "B", "C", "D", "E", "F", "G", "H", "I", "J", "K", "L", "M", "N", "O", "P", "Q", "R", "S", "T", "U", "V", "W", "X", "Y", "Z">>
LowerCase == <<"a", "b", "c", "d", "e", "f", "g", "h", "i", "j", "k", "l", "m", "n", "o", "p", "q", "r", "s", "t", "u", "v", "w", "x", "y", "z">>

\* str.lower() on one character and on a string
LowerChar(c) ==
    IF \E i \in 1..Len(UpperCase) : UpperCase[i] = c
    THEN LowerCase[CHOOSE i \in 1..Len(UpperCase) : UpperCase[i] = c]
    ELSE c

Lower(str) == [i \in 1..Len(str) |-> LowerChar(str[i])]

\* Python's `sub in str` on strings
Contains(sub, str) ==
    \E i \in 0..(Len(str) - Len(sub)) : SubSeq(str, i + 1, i + Len(sub)) = sub

\* selector.extract_first()
extract_first(texts) == IF texts = <<>> THEN PyNone ELSE PyStr(Head(texts))

S_pdf == <<"p", "d", "f">>
S_xml == <<"x", "m", "l">>
S_doi == <<"d", "x", ".", "d", "o", "i", ".", "o", "r", "g">>

\* faulty variant of link_kind: the xml test comes before the pdf test
link_kind_xml_first(link) ==
    CASE Contains(S_xml, Lower(link)) -> "xml"
      [] Contains(S_pdf, Lower(link)) -> "pdf"
      [] Contains(S_doi, Lower(link)) -> "splash"
      [] OTHER -> "discarded"

\* differentiate_urls, lines 121-126: the if / elif chain for one link
link_kind(link) ==
    IF Contains(S_pdf, Lower(link)) THEN "pdf"
    ELSE IF Contains(S_xml, Lower(link)) THEN "xml"
    ELSE IF Contains(S_doi, Lower(link)) THEN "splash"
    ELSE "discarded"

\* differentiate_urls, lines 117-132: the loop appends each link to the list
\* of its kind
RECURSIVE differentiate_loop(_, _)
differentiate_loop(urls_in_record, acc) ==
    IF urls_in_record = <<>> THEN acc
    ELSE LET link == Head(urls_in_record)
             kind == link_kind(link)
         IN differentiate_loop(Tail(urls_in_record),
               [pdf_links |-> IF kind = "pdf" THEN Append(acc.pdf_links, link)
                              ELSE acc.pdf_links,
                xml_links |-> IF kind = "xml" THEN Append(acc.xml_links, link)
                              ELSE acc.xml_links,
                splash_links |-> IF kind = "splash" THEN Append(acc.splash_links, link)
                                 ELSE acc.splash_links])

differentiate_urls(urls_in_record) ==
    differentiate_loop(urls_in_record,
        [pdf_links |-> <<>>, xml_links |-> <<>>, splash_links |-> <<>>])

SeqToSet(seq) == {seq[i] : i \in 1..Len(seq)}

\* list(set(...)): the distinct elements in any order
RECURSIVE Orderings(_)
Orderings(S) ==
    IF S = {} THEN {<<>>}
    ELSE UNION {{<<x>> \o rest : rest \in Orderings(S \ {x})} : x \in S}

\* get_urls_in_record, line 110: the lists all_links can be
all_links(n) == Orderings(SeqToSet(n.marc_856 \o n.marc_FFT))

Digits == {"0", "1", "2", "3", "4", "5", "6", "7", "8", "9"}
IsDigit(c) == c \in Digits

\* get_copyright, lines 165-169: iterating None raises TypeError
get_copyright(n) ==
    LET copyright_raw == extract_first(n.f542_f) IN
    IF copyright_raw.kind = "none"
    THEN [exc |-> "TypeError", copyright_raw |-> PyNone, cr_year |-> <<>>]
    ELSE [exc |-> "none", copyright_raw |-> copyright_raw,
          cr_year |-> SelectSeq(copyright_raw.chars, IsDigit)]

S_cc_by_30 == <<"C", "C", "-", "B", "Y", "-", "3", ".", "0">>
S_cc_title == <<"C", "r", "e", "a", "t", "i", "v", "e", " ", "C", "o", "m", "m", "o", "n", "s", " ", "A", "t", "t", "r", "i", "b", "u", "t", "i", "o", "n", " ", "3", ".", "0">>
S_cc_by == <<"C", "C", "-", "B", "Y">>
S_cc_url == <<"h", "t", "t", "p", ":", "/", "/", "c", "r", "e", "a", "t", "i", "v", "e", "c", "o", "m", "m", "o", "n", "s", ".", "o", "r", "g", "/">>

\* OA_LICENSES of hepcrawl.mappings: patterns anchored at the start of the
\* label
OA_LICENSES == {S_cc_by, S_cc_url}

\* re.search('^' + pattern, text)
StartsWith(pattern, text) ==
    Len(pattern) <= Len(text) /\ SubSeq(text, 1, Len(pattern)) = pattern

\* _get_license, lines 138-160.  Line 151 reads
\*   (license_str and license_str in lic) or (license_str in title)
\* and `None in <str>` raises TypeError.
get_license(n) ==
    LET license_str == extract_first(n.f540_a)
        license_url == extract_first(n.f540_u)
    IN IF license_str.kind = "none"
       THEN [exc |-> "TypeError", license_str |-> PyNone,
             license_url |-> license_url, openaccess |-> FALSE]
       ELSE LET matched ==
                    \/ (license_str.chars # <<>>
                          /\ Contains(license_str.chars, S_cc_by_30))
                    \/ Contains(license_str.chars, S_cc_title)
                label == IF matched THEN S_cc_by_30 ELSE license_str.chars
            IN [exc |-> "none", license_str |-> PyStr(label),
                license_url |-> license_url,
                openaccess |-> \E pattern \in OA_LICENSES :
                                   StartsWith(pattern, label)]

\* get_affiliations, lines 80-88
get_affiliations(author) ==
    [i \in 1..Len(author.u) |-> [value |-> author.u[i]]]

\* get_authors, lines 92-102
get_authors(n) ==
    [i \in 1..Len(n.authors) |->
        [raw_name |-> extract_first(n.authors[i].a),
         affiliations |-> get_affiliations(n.authors[i])]]

\* create_fft_file, lines 173-179
create_fft_file(file_path, file_access, file_type) ==
    [access |-> file_access, description |-> "HINDAWI", url |-> file_path,
     type |-> file_type]

Fields == {"authors", "title", "copyright_statement", "copyright_year",
           "license", "license_url", "license_type", "urls", "file_urls",
           "additional_files", "collections", "source"}

\* a loader with nothing added
EmptyValues == [f \in Fields |-> <<>>]

\* ItemLoader.add_value / add_xpath: the values are appended to the field;
\* an absent or empty value adds nothing
add_value(values, field, value_list) ==
    [values EXCEPT ![field] = @ \o value_list]

\* a Python value as the list add_value receives: None and '' add nothing
as_list(v) == IF v.kind = "none" \/ v.chars = <<>> THEN <<>> ELSE <<v.chars>>

S_open_access == <<"o", "p", "e", "n", "-", "a", "c", "c", "e", "s", "s">>

\* parse_node, lines 184-231; ord is the order list(set(...)) produced
parse_node(n, ord) ==
    LET v1 == add_value(EmptyValues, "authors", get_authors(n))
        v2 == add_value(v1, "title", n.title)
        cr == get_copyright(n)
        v3 == add_value(add_value(v2, "copyright_statement", as_list(cr.copyright_raw)),
                        "copyright_year", as_list(PyStr(cr.cr_year)))
        lic == get_license(n)
        v4 == IF lic.license_str.kind # "none" /\ lic.license_str.chars # <<>>
              THEN LET w == add_value(add_value(v3, "license", as_list(lic.license_str)),
                                      "license_url", as_list(lic.license_url))
                   IN IF lic.openaccess
                      THEN add_value(w, "license_type", <<S_open_access>>)
                      ELSE w
              ELSE v3
        d == differentiate_urls(ord)
        v5 == add_value(add_value(v4, "urls", d.splash_links),
                        "file_urls", d.pdf_links)
        v6 == IF d.xml_links # <<>>
              THEN add_value(v5, "additional_files",
                      [i \in 1..Len(d.xml_links) |->
                          create_fft_file(d.xml_links[i], "INSPIRE-HIDDEN", "Fulltext")])
              ELSE v5
        v7 == add_value(v6, "collections", <<"HEP", "Citeable", "Published">>)
        v8 == add_value(v7, "source", n.source)
    IN IF cr.exc # "none" THEN [exc |-> cr.exc, values |-> v2]
       ELSE IF lic.exc # "none" THEN [exc |-> lic.exc, values |-> v3]
       ELSE [exc |-> "none", values |-> v8]

(***************************************************************************)
(* Record normaliser: inputs                                               *)
(***************************************************************************)
UrlPool == {<<"a", ".", "p", "d", "f">>,
            <<"A", ".", "P", "D", "F">>,
            <<"b", ".", "x", "m", "l">>,
            <<"B", ".", "X", "m", "l">>,
            <<"d", "x", ".", "d", "o", "i", ".", "o", "r", "g", "/", "1">>,
            <<"D", "X", ".", "D", "O", "I", ".", "O", "R", "G", "/", "x", ".", "x", "m", "l", ".", "P", "d", "f">>,
            <<"d", "x", ".", "d", "o", "i", ".", "o", "r", "g", "/", "b", ".", "x", "m", "l">>,
            <<"c", ".", "t", "x", "t">>}

RECURSIVE UrlLists(_)
UrlLists(n) ==
    IF n = 0 THEN {<<>>}
    ELSE LET shorter == UrlLists(n - 1) IN
         shorter \cup {<<u>> \o t : u \in UrlPool, t \in shorter}

OneUrl == {<<>>} \cup {<<u>> : u \in UrlPool}

S_copyright_2016 == <<"C", "o", "p", "y", "r", "i", "g", "h", "t", " ", "2", "0", "1", "6", ",", " ", "A", "u", "t", "h", "o", "r">>
S_c_2015_2016 == <<"(", "c", ")", " ", "2", "0", "1", "5", "-", "2", "0", "1", "6">>
S_gpl == <<"G", "P", "L">>
S_title == <<"T">>

CopyrightTexts == {<<>>, <<S_copyright_2016>>, <<S_c_2015_2016>>}
LicenseTexts == {<<>>, <<S_cc_by_30>>, <<S_cc_title>>, <<S_gpl>>}
LicenseUrlTexts == {<<>>, <<S_cc_url>>}
AuthorNodes == {<<>>, <<[a |-> <<>>, u |-> <<>>]>>,
                <<[a |-> <<S_title>>, u |-> <<S_gpl, S_title>>]>>}

Nodes(urls856, urlsFFT) ==
    [authors : AuthorNodes, title : {<<>>, <<S_title>>}, source : {<<>>, <<S_gpl>>},
     f542_f : CopyrightTexts, f540_a : LicenseTexts, f540_u : LicenseUrlTexts,
     marc_856 : urls856, marc_FFT : urlsFFT]

NoLinks == [input |-> <<>>, class |-> "none",
            out |-> [pdf_links |-> <<>>, xml_links |-> <<>>, splash_links |-> <<>>]]
NoItem == [exc |-> "none", values |-> EmptyValues]

IdleHarvest ==
    /\ now = 0 /\ file = NoFile /\ from_date = NoneVal /\ until_date = NoneVal
    /\ sr_pc = "off" /\ started_at = DateTime(0, 0) /\ parse_pc = "off"
    /\ fetch = NoFetch /\ remaining = 0 /\ emitted = 0
    /\ hist = NewHist(NoneVal, FALSE)

InitRecord ==
    /\ node \in Nodes(OneUrl, OneUrl)
    /\ item = NoItem
    /\ links = NoLinks
    /\ rec_pc = "start"
    /\ IdleHarvest
    /\ IdleAlias

\* the framework calls parse_node on the record
ParseNode ==
    /\ rec_pc = "start"
    /\ \E ord \in all_links(node) : item' = parse_node(node, ord)
    /\ rec_pc' = "done"
    /\ UNCHANGED <<node, links>>
    /\ UNCHANGED <<hvars, avars>>

NextRecord == ParseNode

SpecRecord == InitRecord /\ [][NextRecord]_vars

\* every designated subfield of the node is absent
AllAbsent ==
    /\ node.authors = <<>> /\ node.title = <<>> /\ node.source = <<>>
    /\ node.f542_f = <<>> /\ node.f540_a = <<>> /\ node.f540_u = <<>>
    /\ node.marc_856 = <<>> /\ node.marc_FFT = <<>>

\* C9: parse_node never raises for absent optional subfields: an absent
\* copyright statement (542 f) or license label (540 a) leaves the
\* corresponding output fields empty, and a record with all optional
\* subfields absent yields a record with only collections populated.
C9_AbsentSubfieldsNeverRaise ==
    rec_pc = "done" =>
        /\ item.exc = "none"
        /\ node.f542_f = <<>> =>
              (item.values["copyright_statement"] = <<>>
                 /\ item.values["copyright_year"] = <<>>)
        /\ node.f540_a = <<>> =>
              (item.values["license"] = <<>> /\ item.values["license_type"] = <<>>)
        /\ item.values["collections"] = <<"HEP", "Citeable", "Published">>
        /\ AllAbsent =>
              \A f \in Fields \ {"collections"} : item.values[f] = <<>>

(***************************************************************************)
(* URL classification on its own                                           *)
(***************************************************************************)
InitUrls ==
    /\ node \in [authors : {<<>>}, title : {<<>>}, source : {<<>>},
                 f542_f : {<<>>}, f540_a : {<<>>}, f540_u : {<<>>},
                 marc_856 : UrlLists(MaxUrls), marc_FFT : OneUrl]
    /\ item = NoItem
    /\ links = NoLinks
    /\ rec_pc = "start"
    /\ IdleHarvest
    /\ IdleAlias

\* get_urls_in_record, lines 106-112
GetUrlsInRecord ==
    /\ rec_pc = "start"
    /\ \E ord \in all_links(node) :
        links' = [input |-> ord, class |-> "none", out |-> differentiate_urls(ord)]
    /\ rec_pc' = "urls"
    /\ UNCHANGED <<node, item>>
    /\ UNCHANGED <<hvars, avars>>

\* differentiate_urls called on a list as it stands (duplicates kept)
DifferentiateUrls ==
    /\ rec_pc = "start"
    /\ links' = [input |-> node.marc_856, class |-> "none",
                 out |-> differentiate_urls(node.marc_856)]
    /\ rec_pc' = "urls"
    /\ UNCHANGED <<node, item>>
    /\ UNCHANGED <<hvars, avars>>

\* differentiate_urls called again on one of the lists it returned
Reclassify ==
    /\ rec_pc = "urls"
    /\ \E c \in {"pdf", "xml", "splash"} :
        LET again == CASE c = "pdf" -> links.out.pdf_links
                       [] c = "xml" -> links.out.xml_links
                       [] OTHER -> links.out.splash_links
        IN links' = [input |-> again, class |-> c, out |-> differentiate_urls(again)]
    /\ rec_pc' = "again"
    /\ UNCHANGED <<node, item>>
    /\ UNCHANGED <<hvars, avars>>

NextUrls == GetUrlsInRecord \/ DifferentiateUrls \/ Reclassify

SpecUrls == InitUrls /\ [][NextUrls]_vars

HasPdf(u) == Contains(S_pdf, Lower(u))
HasXml(u) == Contains(S_xml, Lower(u))
HasDoi(u) == Contains(S_doi, Lower(u))
IsPdfUrl(u) == HasPdf(u)
IsXmlUrl(u) == ~HasPdf(u) /\ HasXml(u)
IsSplashUrl(u) == ~HasPdf(u) /\ ~HasXml(u) /\ HasDoi(u)

\* C10: every input URL is assigned to exactly one of pdf, xml, splash or
\* discarded, by case-insensitive substring match in the priority order
\* 'pdf', 'xml', 'dx.doi.org'; no URL is in two output lists; classifying an
\* output list again leaves its members in the same class.
C10_UrlClassification ==
    rec_pc \in {"urls", "again"} =>
        /\ links.out.pdf_links = SelectSeq(links.input, IsPdfUrl)
        /\ links.out.xml_links = SelectSeq(links.input, IsXmlUrl)
        /\ links.out.splash_links = SelectSeq(links.input, IsSplashUrl)
        /\ SeqToSet(links.out.pdf_links) \cap SeqToSet(links.out.xml_links) = {}
        /\ SeqToSet(links.out.pdf_links) \cap SeqToSet(links.out.splash_links) = {}
        /\ SeqToSet(links.out.xml_links) \cap SeqToSet(links.out.splash_links) = {}
        /\ links.class = "pdf" =>
              (links.out.pdf_links = links.input
                 /\ links.out.xml_links = <<>> /\ links.out.splash_links = <<>>)
        /\ links.class = "xml" =>
              (links.out.xml_links = links.input
                 /\ links.out.pdf_links = <<>> /\ links.out.splash_links = <<>>)
        /\ links.class = "splash" =>
              (links.out.splash_links = links.input
                 /\ links.out.pdf_links = <<>> /\ links.out.xml_links = <<>>)

C10_Witness ==
    /\ rec_pc = "again"
    /\ links.class = "pdf"
    /\ Len(links.input) = 2
    /\ \E i \in 1..Len(links.input) :
          HasXml(links.input[i]) /\ HasDoi(links.input[i])
    /\ links.out.pdf_links = links.input

====
